---- MODULE Spec2Model ----
(***************************************************************************)
(* Smart-Attendance-System-DNN: the attendance ledger (AttendanceManager   *)
(* over data/attendance.csv) and the embedding registry (EmbeddingDatabase *)
(* over data/registered_faces/embeddings.pkl).                             *)
(*                                                                         *)
(* A text is a sequence of one-character strings, so that str.strip() and  *)
(* the way pandas parses the CSV back are computed, not assumed.  A date   *)
(* is a day number (strftime("%Y-%m-%d") is one-to-one on days and pandas  *)
(* reads the Date column back as the same text), a time of day is a second *)
(* number within the day ("%H:%M:%S" likewise).                            *)
(***************************************************************************)
EXTENDS Integers, Sequences, FiniteSets, TLC

VARIABLES
    csv,            \* data/attendance.csv: [exists, rows], rows as written by to_csv
    marked_today,   \* AttendanceManager.marked_today
    clock,          \* the ambient clock: the seconds since the first midnight
    pkl,            \* embeddings.pkl: [exists, readable, data]
    appDb,          \* st.session_state.db.embeddings
    mgrDb,          \* st.session_state.attendance_manager.db.embeddings
    credited,       \* history: the (name, date) pairs for which mark returned True
    session,        \* st.session_state: attendance_active, last_match, last_match_time
    managers,       \* the AttendanceManager objects of two browser sessions at work
                    \* at once: marked_today and the place in mark_attendance
    registries,     \* the EmbeddingDatabase objects of two browser sessions at work
                    \* at once: embeddings and the place in save_embedding
    last            \* history: the latest call, its arguments and what it returned

vars ==
    <<csv, marked_today, clock, pkl, appDb, mgrDb, credited, session, managers, registries,
      last>>

----------------------------------------------------------------------------
(* Bounds of the model *)

TicksPerDay == 2    \* the seconds of a day the model tells apart
MaxClock == 3       \* the last second the clock reaches
MaxRows == 2        \* the rows the CSV file may hold
MaxFaces == 3       \* the rectangles detectMultiScale may find in a frame
OutputBound == 4    \* the largest component of an output of the model
MaxScanClock == 6   \* the last second the clock reaches on the scanning page

----------------------------------------------------------------------------
(* Texts *)

\* Python's None where a text is expected; no text equals it (a text holds
\* one-character strings only).
None == <<"None">>

\* Python's None where a distance or a threshold is expected
NoDist == <<0, 0>>

Whitespace == {" "}
DigitChars == {"0", "1", "2", "3", "4", "5", "6", "7", "8", "9"}

RECURSIVE LStrip(_)
LStrip(s) ==
    IF s # <<>> /\ Head(s) \in Whitespace THEN LStrip(Tail(s)) ELSE s

RECURSIVE RStrip(_)
RStrip(s) ==
    IF s # <<>> /\ s[Len(s)] \in Whitespace
    THEN RStrip(SubSeq(s, 1, Len(s) - 1))
    ELSE s

\* str.strip()
Strip(s) == RStrip(LStrip(s))

\* the texts the callers pass as a name
NameA  == <<"A">>
NameNA == <<"N", "A">>
Name7  == <<"7">>
NameInputs ==
    {None, <<>>, <<" ">>, NameA, <<" ", "A", " ">>, NameNA, Name7}

----------------------------------------------------------------------------
(* pandas: DataFrame.to_csv and read_csv on the Name column *)

\* read_csv's default na_values (keep_default_na=True) that the alphabet can spell
NaValues == {<<>>, NameNA}

\* a field the C parser converts to a number
IsNumericText(s) == s # <<>> /\ \A i \in 1..Len(s) : s[i] \in DigitChars

\* pd.read_csv's type inference on the Name column: when every Name that is
\* not an NA text parses as a number the column is numeric (float64 when all
\* are NA), otherwise it is an object column of texts and NaN
NumericColumn(file) ==
    \A i \in 1..Len(file.rows) :
        file.rows[i].Name \in NaValues \/ IsNumericText(file.rows[i].Name)

\* pd.read_csv: every Name that is an NA text becomes NaN, the others numbers
\* in a numeric column and texts otherwise.  Date and Time are never numeric
\* nor NA and stay texts.
ReadCsv(file) ==
    LET rows == file.rows
        Parse(s) == IF s \in NaValues THEN [kind |-> "nan", text |-> s]
                    ELSE IF NumericColumn(file) THEN [kind |-> "num", text |-> s]
                    ELSE [kind |-> "str", text |-> s]
    IN  [i \in 1..Len(rows) |->
            [Name |-> Parse(rows[i].Name), Date |-> rows[i].Date, Time |-> rows[i].Time]]

\* df['Name'] == name for one cell: a NaN or a number never equals a text
NameEquals(cell, name) == cell.kind = "str" /\ cell.text = name

\* df[(df['Name'] == name) & (df['Date'] == today)]
TodayRecords(df, name, today) ==
    {i \in 1..Len(df) : NameEquals(df[i].Name, name) /\ df[i].Date = today}

\* df.to_csv(path, mode='a', header=<file missing or empty>, index=False) of a
\* one-row frame: the row goes after the rows already there; a missing file is
\* created (with the header line, as every creation of the file writes it).
AppendCsv(file, record) ==
    [exists |-> TRUE, rows |-> Append(IF file.exists THEN file.rows ELSE <<>>, record)]

\* _ensure_csv_exists writing the empty frame whether or not the file exists
EnsureCsvExists_always(file) == [exists |-> TRUE, rows |-> <<>>]

\* AttendanceManager._ensure_csv_exists
EnsureCsvExists(file) ==
    IF ~file.exists THEN [exists |-> TRUE, rows |-> <<>>] ELSE file

----------------------------------------------------------------------------
(* AttendanceManager.mark_attendance, as a function of the object's state,  *)
(* the file and the two clock reads                                        *)

\* mark_attendance with the name also put in marked_today when the CSV
\* already holds today's record
mark_attendance_selfheal(marked, file, name, today, current_time) ==
    IF name = None \/ Strip(name) = <<>>
    THEN [ret |-> FALSE, marked |-> marked, file |-> file]
    ELSE LET n == Strip(name) IN
         IF n \in marked
         THEN [ret |-> FALSE, marked |-> marked, file |-> file]
         ELSE IF /\ file.exists
                 /\ Len(ReadCsv(file)) > 0
                 /\ TodayRecords(ReadCsv(file), n, today) # {}
         THEN [ret |-> FALSE, marked |-> marked \cup {n}, file |-> file]
         ELSE [ret    |-> TRUE,
               marked |-> marked \cup {n},
               file   |-> AppendCsv(file,
                              [Name |-> n, Date |-> today, Time |-> current_time])]

\* mark_attendance writing the name as passed, not stripped
mark_attendance_unstripped(marked, file, name, today, current_time) ==
    IF name = None \/ Strip(name) = <<>>
    THEN [ret |-> FALSE, marked |-> marked, file |-> file]
    ELSE LET n == Strip(name) IN
         IF n \in marked
         THEN [ret |-> FALSE, marked |-> marked, file |-> file]
         ELSE IF /\ file.exists
                 /\ Len(ReadCsv(file)) > 0
                 /\ TodayRecords(ReadCsv(file), n, today) # {}
         THEN [ret |-> FALSE, marked |-> marked, file |-> file]
         ELSE [ret    |-> TRUE,
               marked |-> marked \cup {n},
               file   |-> AppendCsv(file,
                              [Name |-> name, Date |-> today, Time |-> current_time])]

\* mark_attendance without the test of lines 108-109: a missing name counts
\* as the empty text
mark_attendance_unchecked(marked, file, name, today, current_time) ==
    LET n == IF name = None THEN <<>> ELSE Strip(name) IN
    IF n \in marked
    THEN [ret |-> FALSE, marked |-> marked, file |-> file]
    ELSE IF /\ file.exists
            /\ Len(ReadCsv(file)) > 0
            /\ TodayRecords(ReadCsv(file), n, today) # {}
    THEN [ret |-> FALSE, marked |-> marked, file |-> file]
    ELSE [ret    |-> TRUE,
          marked |-> marked \cup {n},
          file   |-> AppendCsv(file,
                         [Name |-> n, Date |-> today, Time |-> current_time])]

\* AttendanceManager.mark_attendance
mark_attendance(marked, file, name, today, current_time) ==
    IF name = None \/ Strip(name) = <<>>
    THEN [ret |-> FALSE, marked |-> marked, file |-> file]
    ELSE LET n == Strip(name) IN
         IF n \in marked
         THEN [ret |-> FALSE, marked |-> marked, file |-> file]
         ELSE IF /\ file.exists
                 /\ Len(ReadCsv(file)) > 0
                 /\ TodayRecords(ReadCsv(file), n, today) # {}
         THEN [ret |-> FALSE, marked |-> marked, file |-> file]
         ELSE [ret    |-> TRUE,
               marked |-> marked \cup {n},
               file   |-> AppendCsv(file,
                              [Name |-> n, Date |-> today, Time |-> current_time])]

\* AttendanceManager.reset_session
reset_session(marked) == {}

----------------------------------------------------------------------------
(* EmbeddingDatabase: the dict self.embeddings and its pickle snapshot.    *)
(* A dict is the sequence of its entries in insertion order (the order a   *)
(* Python dict enumerates, and the order pickle writes and restores).      *)
(* pickle.dump / pickle.load restore the keys, their order and the arrays  *)
(* exactly; an unreadable file makes pickle.load raise.                    *)

\* the embeddings the callers pass: arrays of norm 5, None as the empty tuple
NoneEmb == <<>>
Embeddings == {<<5, 0>>, <<4, 3>>, <<0, 5>>}
Queries == Embeddings \cup {<<3, 4>>}
NameB == <<"B">>
RegistryNameInputs == {None, <<>>, <<" ">>, NameA, <<" ", "A">>, NameB}

DictKeys(d) == {d[i].name : i \in 1..Len(d)}
DictIndex(d, k) == CHOOSE i \in 1..Len(d) : d[i].name = k
DictGet(d, k) == d[DictIndex(d, k)].emb

\* d[k] = v: an existing key keeps its place, a new key goes last
DictSet(d, k, v) ==
    IF k \in DictKeys(d)
    THEN [d EXCEPT ![DictIndex(d, k)].emb = v]
    ELSE Append(d, [name |-> k, emb |-> v])

\* del d[k]
DictDel(d, k) ==
    LET i == DictIndex(d, k) IN SubSeq(d, 1, i - 1) \o SubSeq(d, i + 1, Len(d))

\* load_embeddings keeping self.embeddings when pickle.load raises
load_embeddings_keepstale(embeddings, file) ==
    IF file.exists
    THEN IF file.readable THEN file.data ELSE embeddings
    ELSE <<>>

\* load_embeddings answering from self.embeddings, the file not read again
load_embeddings_cached(embeddings, file) == embeddings

\* EmbeddingDatabase.load_embeddings: the new self.embeddings
load_embeddings(embeddings, file) ==
    IF file.exists
    THEN IF file.readable THEN file.data ELSE <<>>
    ELSE <<>>

\* open(path, 'wb') and pickle.dump(self.embeddings, f)
PickleDump(embeddings) == [exists |-> TRUE, readable |-> TRUE, data |-> embeddings]

\* save_embedding keyed by the name as passed, not stripped
save_embedding_unstripped(embeddings, file, name, embedding) ==
    IF name = None \/ Strip(name) = <<>>
    THEN [raised |-> "ValueError", embeddings |-> embeddings, file |-> file]
    ELSE IF embedding = NoneEmb
    THEN [raised |-> "ValueError", embeddings |-> embeddings, file |-> file]
    ELSE LET loaded == load_embeddings(embeddings, file)
             updated == DictSet(loaded, name, embedding)
         IN  [raised |-> "", embeddings |-> updated, file |-> PickleDump(updated)]

\* save_embedding loading the file before it checks its arguments
save_embedding_loadfirst(embeddings, file, name, embedding) ==
    LET loaded == load_embeddings(embeddings, file) IN
    IF name = None \/ Strip(name) = <<>>
    THEN [raised |-> "ValueError", embeddings |-> loaded, file |-> file]
    ELSE IF embedding = NoneEmb
    THEN [raised |-> "ValueError", embeddings |-> loaded, file |-> file]
    ELSE LET updated == DictSet(loaded, Strip(name), embedding)
         IN  [raised |-> "", embeddings |-> updated, file |-> PickleDump(updated)]

\* EmbeddingDatabase.save_embedding
save_embedding(embeddings, file, name, embedding) ==
    IF name = None \/ Strip(name) = <<>>
    THEN [raised |-> "ValueError", embeddings |-> embeddings, file |-> file]
    ELSE IF embedding = NoneEmb
    THEN [raised |-> "ValueError", embeddings |-> embeddings, file |-> file]
    ELSE LET loaded == load_embeddings(embeddings, file)
             updated == DictSet(loaded, Strip(name), embedding)
         IN  [raised |-> "", embeddings |-> updated, file |-> PickleDump(updated)]

\* delete_embedding that does not write the file after del
delete_embedding_nodump(embeddings, file, name) ==
    LET loaded == load_embeddings(embeddings, file) IN
    IF name = None
    THEN [ret |-> FALSE, raised |-> "AttributeError", embeddings |-> loaded, file |-> file]
    ELSE IF Strip(name) \in DictKeys(loaded)
    THEN [ret |-> TRUE, raised |-> "", embeddings |-> DictDel(loaded, Strip(name)),
          file |-> file]
    ELSE [ret |-> FALSE, raised |-> "", embeddings |-> loaded, file |-> file]

\* EmbeddingDatabase.delete_embedding; name.strip() on None raises after the load
delete_embedding(embeddings, file, name) ==
    LET loaded == load_embeddings(embeddings, file) IN
    IF name = None
    THEN [ret |-> FALSE, raised |-> "AttributeError", embeddings |-> loaded, file |-> file]
    ELSE IF Strip(name) \in DictKeys(loaded)
    THEN LET updated == DictDel(loaded, Strip(name)) IN
         [ret |-> TRUE, raised |-> "", embeddings |-> updated, file |-> PickleDump(updated)]
    ELSE [ret |-> FALSE, raised |-> "", embeddings |-> loaded, file |-> file]

\* get_embedding looking the name up as passed, not stripped
get_embedding_unstripped(embeddings, file, name) ==
    LET loaded == load_embeddings(embeddings, file) IN
    IF name = None
    THEN [raised |-> "AttributeError", emb |-> NoneEmb, embeddings |-> loaded]
    ELSE IF name \in DictKeys(loaded)
    THEN [raised |-> "", emb |-> DictGet(loaded, name), embeddings |-> loaded]
    ELSE [raised |-> "", emb |-> NoneEmb, embeddings |-> loaded]

\* EmbeddingDatabase.get_embedding: self.embeddings.get(name.strip()) after the
\* load; name.strip() on None raises
get_embedding(embeddings, file, name) ==
    LET loaded == load_embeddings(embeddings, file) IN
    IF name = None
    THEN [raised |-> "AttributeError", emb |-> NoneEmb, embeddings |-> loaded]
    ELSE IF Strip(name) \in DictKeys(loaded)
    THEN [raised |-> "", emb |-> DictGet(loaded, Strip(name)), embeddings |-> loaded]
    ELSE [raised |-> "", emb |-> NoneEmb, embeddings |-> loaded]

\* return self.embeddings: the caller holds the registry's own dict
DictCopy_sameobject(d) == [shared |-> TRUE, items |-> d]

\* dict.copy(): a new dict object holding the same items
DictCopy(d) == [shared |-> FALSE, items |-> d]

\* EmbeddingDatabase.get_all_names: list(self.embeddings.keys()) after the load
get_all_names(embeddings, file) ==
    LET loaded == load_embeddings(embeddings, file) IN
    [names |-> [i \in 1..Len(loaded) |-> loaded[i].name], embeddings |-> loaded]

\* EmbeddingDatabase.get_count: len(self.embeddings) after the load
get_count(embeddings, file) ==
    LET loaded == load_embeddings(embeddings, file) IN
    [count |-> Len(loaded), embeddings |-> loaded]

----------------------------------------------------------------------------
(* AttendanceManager.find_match.  A distance is the exact fraction          *)
(* <<numerator, denominator>>; fractions are compared by cross             *)
(* multiplication, float('inf') is <<1, 0>>.                               *)

Inf == <<1, 0>>
Less(x, y) == x[1] * y[2] < y[1] * x[2]

\* AttendanceManager.__init__(threshold=0.5); None is NoDist
DefaultThreshold == <<1, 2>>
Thresholds == {NoDist, <<1, 5>>}

Dot(a, b) == a[1] * b[1] + a[2] * b[2]
\* the Euclidean norm (the arrays used have a whole one); sklearn's normalize
\* divides a zero row by 1
Norm(a) ==
    LET n == CHOOSE r \in 0..Dot(a, a) : r * r = Dot(a, a) IN IF n = 0 THEN 1 ELSE n

\* compare_embeddings: distance = 1 - cosine_similarity(emb1, emb2)
compare_embeddings(embedding1, embedding2) ==
    <<Norm(embedding1) * Norm(embedding2) - Dot(embedding1, embedding2),
      Norm(embedding1) * Norm(embedding2)>>

\* the loop with "distance <= best_distance": the last of equals wins
RECURSIVE ScanBest_lastwins(_, _, _, _)
ScanBest_lastwins(registered, i, query, best) ==
    IF i > Len(registered) THEN best
    ELSE LET distance == compare_embeddings(query, registered[i].emb) IN
         ScanBest_lastwins(registered, i + 1, query,
                  IF ~Less(best.dist, distance)
                  THEN [name |-> registered[i].name, dist |-> distance]
                  ELSE best)

\* the loop of find_match over registered_embeddings.items(), from entry i on
RECURSIVE ScanBest(_, _, _, _)
ScanBest(registered, i, query, best) ==
    IF i > Len(registered) THEN best
    ELSE LET distance == compare_embeddings(query, registered[i].emb) IN
         ScanBest(registered, i + 1, query,
                  IF Less(distance, best.dist)
                  THEN [name |-> registered[i].name, dist |-> distance]
                  ELSE best)

\* AttendanceManager.find_match: what it returns, self.db.embeddings after it,
\* and the entries it enumerated
find_match(embeddings, file, query_embedding, threshold) ==
    LET thr == IF threshold = NoDist THEN DefaultThreshold ELSE threshold
        registered == load_embeddings(embeddings, file)
        best == ScanBest(registered, 1, query_embedding, [name |-> None, dist |-> Inf])
    IN  IF Len(registered) = 0
        THEN [rname |-> None, rdist |-> NoDist, embeddings |-> registered,
              scanned |-> <<>>]
        ELSE IF best.name # None /\ best.name # <<>> /\ Less(best.dist, thr)
        THEN [rname |-> best.name, rdist |-> best.dist, embeddings |-> registered,
              scanned |-> registered]
        ELSE [rname |-> None, rdist |-> NoDist, embeddings |-> registered,
              scanned |-> registered]

----------------------------------------------------------------------------
(* datetime.now().strftime("%Y-%m-%d") and .strftime("%H:%M:%S") *)

Today(now) == now \div TicksPerDay + 1
CurrentTime(now) == now % TicksPerDay

----------------------------------------------------------------------------
(* AttendanceManager.get_attendance_log *)

\* date_filter=None and name_filter=None
NoDate == 0
NoFilter == None
DateFilters == {NoDate} \cup 1..Today(MaxClock)
NameFilters == {NoFilter, <<"a">>}

\* str.lower() on the letters the names use
Lower(c) == IF c = "A" THEN "a" ELSE IF c = "N" THEN "n" ELSE IF c = "B" THEN "b" ELSE c
LowerText(s) == [i \in 1..Len(s) |-> Lower(s[i])]

\* re.search(pat, text, re.IGNORECASE) for a pattern of letters
ContainsNoCase(text, pat) ==
    \E k \in 0..(Len(text) - Len(pat)) :
        LowerText(SubSeq(text, k + 1, k + Len(pat))) = LowerText(pat)

\* Series.str.contains(name_filter, case=False, na=False) for one cell
StrContains(cell, name_filter) ==
    cell.kind = "str" /\ ContainsNoCase(cell.text, name_filter)

\* (Date, Time) of a is not before that of b
KeyGE(a, b) == a.Date > b.Date \/ (a.Date = b.Date /\ a.Time >= b.Time)

\* one row put into a frame sorted by ['Date', 'Time'] descending, after the
\* rows of the same key (the sort is stable)
RECURSIVE InsertDesc(_, _)
InsertDesc(sorted, r) ==
    IF sorted = <<>> THEN <<r>>
    ELSE IF KeyGE(Head(sorted), r)
    THEN <<Head(sorted)>> \o InsertDesc(Tail(sorted), r)
    ELSE <<r>> \o sorted

\* the frame left in the order of the file
SortValues_fileorder(df) == df

\* df.sort_values(by=['Date', 'Time'], ascending=False)
RECURSIVE SortValues(_)
SortValues(df) ==
    IF Len(df) = 0 THEN <<>>
    ELSE InsertDesc(SortValues(SubSeq(df, 1, Len(df) - 1)), df[Len(df)])

\* AttendanceManager.get_attendance_log; .str on a column that is not of
\* texts raises AttributeError
get_attendance_log(file, date_filter, name_filter) ==
    IF ~file.exists THEN [raised |-> "", log |-> <<>>]
    ELSE IF Len(ReadCsv(file)) = 0 THEN [raised |-> "", log |-> <<>>]
    ELSE LET df == ReadCsv(file)
             OnDate(r) == r.Date = date_filter
             byDate == IF date_filter # NoDate THEN SelectSeq(df, OnDate) ELSE df
             Named(r) == StrContains(r.Name, name_filter)
         IN  IF name_filter # NoFilter /\ name_filter # <<>>
             THEN IF NumericColumn(file)
                  THEN [raised |-> "AttributeError", log |-> <<>>]
                  ELSE [raised |-> "", log |-> SortValues(SelectSeq(byDate, Named))]
             ELSE [raised |-> "", log |-> SortValues(byDate)]

----------------------------------------------------------------------------
(* FaceDetector.detect_face.  A frame is None, or an image told by the     *)
(* list of rectangles <<x, y, w, h>> that face_cascade.detectMultiScale    *)
(* finds in it, in the order it returns them; the pixels are left out.     *)

MinSize == 30
FaceSizes == {MinSize, MinSize + 10}
Rects ==
    {<<0, 0, w, h>> : w \in FaceSizes, h \in FaceSizes} \cup {<<10, 0, MinSize, MinSize>>}
NoFrame == [none |-> TRUE, faces |-> <<>>]
Frames ==
    {NoFrame} \cup {[none |-> FALSE, faces |-> f] :
                        f \in UNION {[1..n -> Rects] : n \in 0..MaxFaces}}
\* bbox None
NoBox == <<>>

\* the key of max: rect[2] * rect[3]
Area(rect) == rect[3] * rect[4]

\* faces[0], whatever its size
MaxByArea_first(faces, i, best) == faces[1]

\* max(faces, key=...) from entry i on: the first of the largest
RECURSIVE MaxByArea(_, _, _)
MaxByArea(faces, i, best) ==
    IF i > Len(faces) THEN best
    ELSE MaxByArea(faces, i + 1, IF Area(faces[i]) > Area(best) THEN faces[i] ELSE best)

\* FaceDetector.detect_face: the bounding box it returns (None with no face
\* image, a rectangle with the resized crop of it)
detect_face(frame) ==
    IF frame.none THEN [found |-> FALSE, bbox |-> NoBox]
    ELSE LET faces == frame.faces IN
         IF Len(faces) = 0 THEN [found |-> FALSE, bbox |-> NoBox]
         ELSE [found |-> TRUE, bbox |-> MaxByArea(faces, 2, faces[1])]

----------------------------------------------------------------------------
(* FaceEmbedder.get_embedding.  The output of the model is an array of     *)
(* whole numbers whose Euclidean norm is whole (three components stand for *)
(* the 128), so that the division by the norm is exact: the array returned *)
(* is num / den, component by component; 0 / 0 is NaN, as numpy computes   *)
(* it (with a RuntimeWarning, no exception).                               *)

Coordinates == (0 - OutputBound)..OutputBound
SumSq(v) == v[1] * v[1] + v[2] * v[2] + v[3] * v[3]
HasWholeNorm(v) == \E r \in 0..(2 * OutputBound) : r * r = SumSq(v)
ModelOutputs ==
    {v \in Coordinates \X Coordinates \X Coordinates : HasWholeNorm(v)}
\* session.run raises
InferenceFails == <<>>
FaceImages == {"None", "image"}

\* np.linalg.norm
LinalgNorm(v) == CHOOSE r \in 0..(2 * OutputBound) : r * r = SumSq(v)

\* embedding / norm
Divide(v, n) == [num |-> v, den |-> n]
NoArray == [num |-> <<>>, den |-> 1]

\* FaceEmbedder.get_embedding; run is what session.run gives for the image
embedder_get_embedding(face_image, run) ==
    IF face_image = "None" THEN [raised |-> "ValueError", embedding |-> NoArray]
    ELSE IF run = InferenceFails THEN [raised |-> "Exception", embedding |-> NoArray]
    ELSE [raised |-> "", embedding |-> Divide(run, LinalgNorm(run))]

----------------------------------------------------------------------------
(* app.py: the session state and the page "Mark Attendance".  time.time()  *)
(* is never 0; None of last_match_time is the 0 that the test of line 225  *)
(* takes for false.                                                        *)

NoTime == 0
TimeTime(now) == now + 1
RetriggerSeconds == 5

\* the session state of a new browser session
NewSessionState ==
    [attendance_active |-> FALSE, last_match |-> None, last_match_time |-> NoTime]

\* the embeddings of the faces the camera shows
FrameEmbeddings == Queries \cup {<<0 - 5, 0>>}

\* the registry of an installation where "A" and "B" have been enrolled
Enrolled == <<[name |-> NameA, emb |-> <<5, 0>>], [name |-> NameB, emb |-> <<0, 5>>]>>

\* "Start Attendance" pressed, reset_session() left out
start_attendance_noreset(state, marked) ==
    [session |-> [state EXCEPT !.attendance_active = TRUE], marked |-> marked]

\* "Start Attendance" pressed
start_attendance(state, marked) ==
    [session |-> [state EXCEPT !.attendance_active = TRUE],
     marked  |-> reset_session(marked)]

\* "Stop Attendance" pressed
stop_attendance(state) == [state EXCEPT !.attendance_active = FALSE]

\* show_attendance on a captured image, from detect_face on.  found: a face
\* was detected; embedding: what get_embedding returned, NoneEmb when it
\* raised (find_match raises in its turn on an array of NaN, to the same
\* except clause); now and later: the clock at line 226 and after it;
\* called: mark_attendance was called.

\* the test of lines 224-226 without the clause on last_match_time
show_attendance_frame_nameonly(state, marked, file, embeddings, store, found, embedding, now, later) ==
    LET same == [session |-> state, marked |-> marked, file |-> file,
                 embeddings |-> embeddings, matched |-> None, called |-> FALSE,
                 ret |-> FALSE]
    IN
    IF ~found THEN same
    ELSE IF embedding = NoneEmb THEN same
    ELSE LET m == find_match(embeddings, store, embedding, NoDist)
             seen == [same EXCEPT !.embeddings = m.embeddings, !.matched = m.rname]
         IN
         IF m.rname # None
         THEN IF m.rname # state.last_match
              THEN LET r == mark_attendance(marked, file, m.rname, Today(now),
                                            CurrentTime(later)) IN
                   IF r.ret
                   THEN [seen EXCEPT !.session = [state EXCEPT
                                         !.last_match = m.rname,
                                         !.last_match_time = TimeTime(later)],
                                     !.marked = r.marked, !.file = r.file,
                                     !.called = TRUE, !.ret = TRUE]
                   ELSE [seen EXCEPT !.called = TRUE]
              ELSE seen
         ELSE [seen EXCEPT !.session = [state EXCEPT !.last_match = None]]

\* the embedding taken from the image whether a face was detected or not
show_attendance_frame_ungated(state, marked, file, embeddings, store, found, embedding, now, later) ==
    LET same == [session |-> state, marked |-> marked, file |-> file,
                 embeddings |-> embeddings, matched |-> None, called |-> FALSE,
                 ret |-> FALSE]
    IN
    IF embedding = NoneEmb THEN same
    ELSE LET m == find_match(embeddings, store, embedding, NoDist)
             seen == [same EXCEPT !.embeddings = m.embeddings, !.matched = m.rname]
         IN
         IF m.rname # None
         THEN IF \/ m.rname # state.last_match
                 \/ /\ state.last_match_time # NoTime
                    /\ TimeTime(now) - state.last_match_time > RetriggerSeconds
              THEN LET r == mark_attendance(marked, file, m.rname, Today(now),
                                            CurrentTime(later)) IN
                   IF r.ret
                   THEN [seen EXCEPT !.session = [state EXCEPT
                                         !.last_match = m.rname,
                                         !.last_match_time = TimeTime(later)],
                                     !.marked = r.marked, !.file = r.file,
                                     !.called = TRUE, !.ret = TRUE]
                   ELSE [seen EXCEPT !.called = TRUE]
              ELSE seen
         ELSE [seen EXCEPT !.session = [state EXCEPT !.last_match = None]]

\* show_attendance, lines 187-246
show_attendance_frame(state, marked, file, embeddings, store, found, embedding, now, later) ==
    LET same == [session |-> state, marked |-> marked, file |-> file,
                 embeddings |-> embeddings, matched |-> None, called |-> FALSE,
                 ret |-> FALSE]
    IN
    IF ~found THEN same
    ELSE IF embedding = NoneEmb THEN same
    ELSE LET m == find_match(embeddings, store, embedding, NoDist)
             seen == [same EXCEPT !.embeddings = m.embeddings, !.matched = m.rname]
         IN
         IF m.rname # None
         THEN IF \/ m.rname # state.last_match
                 \/ /\ state.last_match_time # NoTime
                    /\ TimeTime(now) - state.last_match_time > RetriggerSeconds
              THEN LET r == mark_attendance(marked, file, m.rname, Today(now),
                                            CurrentTime(later)) IN
                   IF r.ret
                   THEN [seen EXCEPT !.session = [state EXCEPT
                                         !.last_match = m.rname,
                                         !.last_match_time = TimeTime(later)],
                                     !.marked = r.marked, !.file = r.file,
                                     !.called = TRUE, !.ret = TRUE]
                   ELSE [seen EXCEPT !.called = TRUE]
              ELSE seen
         ELSE [seen EXCEPT !.session = [state EXCEPT !.last_match = None]]

----------------------------------------------------------------------------
(* Two browser sessions at work at once.  Streamlit runs the script of     *)
(* each session in a thread of its own; each session has its own           *)
(* AttendanceManager and its own EmbeddingDatabase (app.py:55-59), all over *)
(* the same two files, and nothing orders their reads and writes of them.  *)

Sessions == {1, 2}

\* the names the two sessions mark: texts that pandas reads back as written
SharedNameInputs == {None, <<" ">>, NameA, <<" ", "A", " ">>, NameB}

\* AttendanceManager(): marked_today empty, no call under way
NewManager == [marked_today |-> {}, pc |-> "idle", name |-> <<>>, today |-> NoDate,
               time |-> NoTime]

\* EmbeddingDatabase() over the file, no call under way; acked: the names
\* whose save_embedding has returned
NewRegistry(file) ==
    [embeddings |-> load_embeddings(<<>>, file), pc |-> "idle", name |-> <<>>,
     acked |-> {}]

\* the names and arrays the two sessions register
SharedRegistryNames == {None, NameA, <<" ", "A">>, NameB}
SharedEmbeddings == {<<5, 0>>, <<0, 5>>}

\* save_embedding up to self.embeddings[name.strip()] = embedding (lines
\* 34-44): the new self.embeddings
save_embedding_update(embeddings, file, name, embedding) ==
    IF name = None \/ Strip(name) = <<>>
    THEN [raised |-> "ValueError", embeddings |-> embeddings]
    ELSE IF embedding = NoneEmb
    THEN [raised |-> "ValueError", embeddings |-> embeddings]
    ELSE [raised |-> "",
          embeddings |-> DictSet(load_embeddings(embeddings, file), Strip(name), embedding)]

\* open(path, 'wb'): the file is emptied, and pickle.load of it raises, until
\* pickle.dump has written
OpenForWriting(file) == [exists |-> TRUE, readable |-> FALSE, data |-> <<>>]

\* mark_attendance up to the read of the CSV file (lines 108-125): TRUE when
\* the call goes on to write
mark_attendance_check(marked, file, name, today) ==
    IF name = None \/ Strip(name) = <<>> THEN FALSE
    ELSE IF Strip(name) \in marked THEN FALSE
    ELSE IF /\ file.exists
            /\ Len(ReadCsv(file)) > 0
            /\ TodayRecords(ReadCsv(file), Strip(name), today) # {}
    THEN FALSE
    ELSE TRUE

\* mark_attendance from the write on (lines 127-140), n being name.strip()
mark_attendance_append(marked, file, n, today, current_time) ==
    [marked |-> marked \cup {n},
     file   |-> AppendCsv(file, [Name |-> n, Date |-> today, Time |-> current_time])]

----------------------------------------------------------------------------
(* The latest call *)

Call(op) ==
    [op |-> op, name |-> <<>>, emb |-> <<>>, thr |-> NoDist, today |-> 0, time |-> 0,
     ret |-> FALSE, raised |-> "", rname |-> None, rdist |-> NoDist, scanned |-> <<>>,
     dfilter |-> NoDate, nfilter |-> NoFilter, log |-> <<>>,
     remb |-> NoneEmb, fresh |-> FALSE, names |-> <<>>, count |-> 0,
     all |-> <<>>, shared |-> FALSE, frame |-> NoFrame, found |-> FALSE, bbox |-> NoBox,
     image |-> "None", run |-> InferenceFails, embedding |-> NoArray,
     called |-> FALSE, now |-> NoTime]

----------------------------------------------------------------------------
(* State machine *)

Init ==
    /\ csv = EnsureCsvExists([exists |-> FALSE, rows |-> <<>>])
    /\ marked_today = {}
    /\ clock = 0
    /\ pkl = [exists |-> FALSE, readable |-> TRUE, data |-> <<>>]
    /\ appDb = <<>>
    /\ mgrDb = <<>>
    /\ credited = {}
    /\ session = NewSessionState
    /\ managers = [m \in Sessions |-> NewManager]
    /\ registries = [i \in Sessions |-> NewRegistry(pkl)]
    /\ last = Call("init")

\* a second passes
Tick ==
    /\ clock < MaxClock
    /\ clock' = clock + 1
    /\ last' = Call("tick")
    /\ UNCHANGED <<csv, marked_today, pkl, appDb, mgrDb, credited, session, managers, registries>>

\* mark_attendance(name).  today and current_time come from two reads of the
\* clock (lines 112 and 113); the second may fall in the next second, which
\* may be the first of the next day.
Mark(name) ==
    /\ Len(csv.rows) < MaxRows
    /\ \E second \in {clock, clock + 1} :
          /\ second <= MaxClock
          /\ clock' = second
    /\ LET r == mark_attendance(marked_today, csv, name,
                                Today(clock), CurrentTime(clock')) IN
          /\ csv' = r.file
          /\ marked_today' = r.marked
          /\ credited' = IF r.ret
                         THEN credited \cup
                                {[name |-> Strip(name), date |-> Today(clock)]}
                         ELSE credited
          /\ last' = [Call("mark") EXCEPT !.name = name, !.today = Today(clock),
                                          !.time = CurrentTime(clock'), !.ret = r.ret]
    /\ UNCHANGED <<pkl, appDb, mgrDb, session, managers, registries>>

ResetSession ==
    /\ marked_today' = reset_session(marked_today)
    /\ last' = Call("reset_session")
    /\ UNCHANGED <<csv, clock, pkl, appDb, mgrDb, credited, session, managers, registries>>

\* attendance_manager.get_attendance_log(date_filter, name_filter)
GetLog(date_filter, name_filter) ==
    /\ LET r == get_attendance_log(csv, date_filter, name_filter) IN
          last' = [Call("get_log") EXCEPT !.dfilter = date_filter, !.nfilter = name_filter,
                        !.raised = r.raised, !.log = r.log]
    /\ UNCHANGED <<csv, marked_today, clock, pkl, appDb, mgrDb, credited, session, managers, registries>>

\* initialize_components() on a fresh session_state: a new AttendanceManager
\* (its own EmbeddingDatabase, _ensure_csv_exists, an empty marked_today) and
\* a new EmbeddingDatabase for the application
Restart ==
    /\ csv' = EnsureCsvExists(csv)
    /\ marked_today' = {}
    /\ mgrDb' = load_embeddings(<<>>, pkl)
    /\ appDb' = load_embeddings(<<>>, pkl)
    /\ session' = NewSessionState
    /\ last' = Call("restart")
    /\ UNCHANGED <<clock, pkl, credited, managers, registries>>

\* attendance_manager.find_match(query, threshold)
FindMatch(query, threshold) ==
    /\ LET r == find_match(mgrDb, pkl, query, threshold) IN
          /\ mgrDb' = r.embeddings
          /\ last' = [Call("find_match") EXCEPT !.emb = query, !.thr = threshold,
                          !.rname = r.rname, !.rdist = r.rdist, !.scanned = r.scanned]
    /\ UNCHANGED <<csv, marked_today, clock, pkl, appDb, credited, session, managers, registries>>

\* st.session_state.db.save_embedding(name, embedding)
Upsert(name, embedding) ==
    /\ LET r == save_embedding(appDb, pkl, name, embedding) IN
          /\ appDb' = r.embeddings
          /\ pkl' = r.file
          /\ last' = [Call("upsert") EXCEPT !.name = name, !.emb = embedding,
                          !.raised = r.raised]
    /\ UNCHANGED <<csv, marked_today, clock, mgrDb, credited, session, managers, registries>>

\* st.session_state.db.delete_embedding(name)
Remove(name) ==
    /\ LET r == delete_embedding(appDb, pkl, name) IN
          /\ appDb' = r.embeddings
          /\ pkl' = r.file
          /\ last' = [Call("remove") EXCEPT !.name = name, !.ret = r.ret,
                          !.raised = r.raised]
    /\ UNCHANGED <<csv, marked_today, clock, mgrDb, credited, session, managers, registries>>

\* st.session_state.db.get_embedding(name); fresh tells that the object has
\* served no call since it was constructed
Lookup(name) ==
    /\ LET r == get_embedding(appDb, pkl, name) IN
          /\ appDb' = r.embeddings
          /\ last' = [Call("lookup") EXCEPT !.name = name, !.raised = r.raised,
                          !.remb = r.emb, !.fresh = (last.op = "restart")]
    /\ UNCHANGED <<csv, marked_today, clock, pkl, mgrDb, credited, session, managers, registries>>

\* st.session_state.db.load_embeddings(): the caller receives
\* self.embeddings.copy()
LoadAll ==
    /\ appDb' = load_embeddings(appDb, pkl)
    /\ LET returned == DictCopy(appDb') IN
          last' = [Call("all") EXCEPT !.all = returned.items, !.shared = returned.shared]
    /\ UNCHANGED <<csv, marked_today, clock, pkl, mgrDb, credited, session, managers, registries>>

\* the caller of load_embeddings changes the dict it received: returned[k] = v,
\* or del returned[k] when v is NoneEmb; a dict object has one content, whoever
\* holds it
MutateReturned(k, v) ==
    /\ last.op = "all"
    /\ v = NoneEmb => k \in DictKeys(last.all)
    /\ LET mutated == IF v = NoneEmb THEN DictDel(last.all, k) ELSE DictSet(last.all, k, v) IN
          /\ last' = [last EXCEPT !.op = "mutate", !.name = k, !.emb = v, !.all = mutated]
          /\ appDb' = IF last.shared THEN mutated ELSE appDb
    /\ UNCHANGED <<csv, marked_today, clock, pkl, mgrDb, credited, session, managers, registries>>

\* st.session_state.db.get_all_names()
GetAllNames ==
    /\ LET r == get_all_names(appDb, pkl) IN
          /\ appDb' = r.embeddings
          /\ last' = [Call("names") EXCEPT !.names = r.names]
    /\ UNCHANGED <<csv, marked_today, clock, pkl, mgrDb, credited, session, managers, registries>>

\* st.session_state.db.get_count()
GetCount ==
    /\ LET r == get_count(appDb, pkl) IN
          /\ appDb' = r.embeddings
          /\ last' = [Call("count") EXCEPT !.count = r.count]
    /\ UNCHANGED <<csv, marked_today, clock, pkl, mgrDb, credited, session, managers, registries>>

\* the snapshot file is damaged from outside the program
CorruptStore ==
    /\ pkl.exists /\ pkl.readable
    /\ pkl' = [exists |-> TRUE, readable |-> FALSE, data |-> <<>>]
    /\ last' = Call("corrupt")
    /\ UNCHANGED <<csv, marked_today, clock, appDb, mgrDb, credited, session, managers, registries>>

\* face_detector.detect_face(frame)
DetectFace(frame) ==
    /\ LET r == detect_face(frame) IN
          last' = [Call("detect_face") EXCEPT !.frame = frame, !.found = r.found,
                        !.bbox = r.bbox]
    /\ UNCHANGED <<csv, marked_today, clock, pkl, appDb, mgrDb, credited, session, managers, registries>>

\* embedder.get_embedding(face_image)
EmbedFace(face_image, run) ==
    /\ LET r == embedder_get_embedding(face_image, run) IN
          last' = [Call("get_embedding") EXCEPT !.image = face_image, !.run = run,
                        !.raised = r.raised, !.embedding = r.embedding]
    /\ UNCHANGED <<csv, marked_today, clock, pkl, appDb, mgrDb, credited, session, managers, registries>>

\* a second passes on the page "Mark Attendance"
ScanTick ==
    /\ clock < MaxScanClock
    /\ clock' = clock + 1
    /\ last' = Call("tick")
    /\ UNCHANGED <<csv, marked_today, pkl, appDb, mgrDb, credited, session, managers, registries>>

\* a run of the script with "Start Attendance" pressed: main() counts the
\* registered faces, show_attendance sets the flag and resets the session
StartAttendance ==
    /\ ~session.attendance_active
    /\ appDb' = get_count(appDb, pkl).embeddings
    /\ LET r == start_attendance(session, marked_today) IN
          /\ session' = r.session
          /\ marked_today' = r.marked
    /\ last' = Call("start")
    /\ UNCHANGED <<csv, clock, pkl, mgrDb, credited, managers, registries>>

\* a run of the script with "Stop Attendance" pressed
StopAttendance ==
    /\ session.attendance_active
    /\ appDb' = get_count(appDb, pkl).embeddings
    /\ session' = stop_attendance(session)
    /\ last' = Call("stop")
    /\ UNCHANGED <<csv, marked_today, clock, pkl, mgrDb, credited, managers, registries>>

\* a run of the script on an image the camera captured while scanning
ScanFrame(found, embedding) ==
    /\ session.attendance_active
    /\ Len(csv.rows) < MaxRows
    /\ \E second \in {clock, clock + 1} :
          /\ second <= MaxScanClock
          /\ clock' = second
    /\ appDb' = get_count(appDb, pkl).embeddings
    /\ \E r \in {show_attendance_frame(session, marked_today, csv, mgrDb, pkl,
                                        found, embedding, clock, clock')} :
          /\ session' = r.session
          /\ marked_today' = r.marked
          /\ csv' = r.file
          /\ mgrDb' = r.embeddings
          /\ credited' = IF r.ret
                         THEN credited \cup {[name |-> r.matched, date |-> Today(clock)]}
                         ELSE credited
          /\ last' = [Call("frame") EXCEPT !.found = found,
                          !.emb = IF found THEN embedding ELSE NoneEmb,
                          !.rname = r.matched, !.ret = r.ret, !.today = Today(clock),
                          !.time = CurrentTime(clock'), !.called = r.called,
                          !.now = TimeTime(clock)]
    /\ UNCHANGED <<pkl, managers, registries>>

\* the rows the file will hold once the calls under way have written
RowsToCome == Len(csv.rows) + Cardinality({m \in Sessions : managers[m].pc = "append"})

\* manager m: mark_attendance(name) up to its read of the CSV file
MarkCheck(m, name) ==
    /\ managers[m].pc = "idle"
    /\ RowsToCome < MaxRows
    /\ LET go == mark_attendance_check(managers[m].marked_today, csv, name, Today(clock)) IN
          /\ managers' = IF go
                          THEN [managers EXCEPT ![m].pc = "append", ![m].name = Strip(name),
                                                ![m].today = Today(clock),
                                                ![m].time = CurrentTime(clock)]
                          ELSE managers
          /\ last' = [Call("mark_check") EXCEPT !.name = name, !.today = Today(clock),
                          !.ret = go]
    /\ UNCHANGED <<csv, marked_today, clock, pkl, appDb, mgrDb, credited, session, registries>>

\* manager m: the rest of the mark_attendance it has under way
MarkAppend(m) ==
    /\ managers[m].pc = "append"
    /\ LET r == mark_attendance_append(managers[m].marked_today, csv, managers[m].name,
                                       managers[m].today, managers[m].time) IN
          /\ csv' = r.file
          /\ managers' = [managers EXCEPT ![m] = [NewManager EXCEPT !.marked_today = r.marked]]
    /\ last' = [Call("mark_append") EXCEPT !.name = managers[m].name,
                    !.today = managers[m].today, !.ret = TRUE]
    /\ UNCHANGED <<marked_today, clock, pkl, appDb, mgrDb, credited, session, registries>>

\* registry i: save_embedding(name, embedding) up to the update of its dict
SaveUpdate(i, name, embedding) ==
    /\ registries[i].pc = "idle"
    /\ \E r \in {save_embedding_update(registries[i].embeddings, pkl, name, embedding)} :
          /\ registries' = IF r.raised = ""
                            THEN [registries EXCEPT ![i].embeddings = r.embeddings,
                                                    ![i].name = Strip(name),
                                                    ![i].pc = "open"]
                            ELSE registries
          /\ last' = [Call("save_update") EXCEPT !.name = name, !.raised = r.raised]
    /\ UNCHANGED <<csv, marked_today, clock, pkl, appDb, mgrDb, credited, session, managers>>

\* registry i: open(self.embeddings_path, 'wb')
SaveOpen(i) ==
    /\ registries[i].pc = "open"
    /\ pkl' = OpenForWriting(pkl)
    /\ registries' = [registries EXCEPT ![i].pc = "dump"]
    /\ last' = Call("save_open")
    /\ UNCHANGED <<csv, marked_today, clock, appDb, mgrDb, credited, session, managers>>

\* registry i: pickle.dump(self.embeddings, f), and save_embedding returns
SaveDump(i) ==
    /\ registries[i].pc = "dump"
    /\ pkl' = PickleDump(registries[i].embeddings)
    /\ registries' = [registries EXCEPT ![i].pc = "idle", ![i].name = <<>>,
                           ![i].acked = @ \cup {registries[i].name}]
    /\ last' = Call("save_dump")
    /\ UNCHANGED <<csv, marked_today, clock, appDb, mgrDb, credited, session, managers>>

LedgerNext ==
    \/ Tick
    \/ \E name \in NameInputs : Mark(name)
    \/ ResetSession
    \/ Restart
    \/ \E q \in Queries, t \in Thresholds : FindMatch(q, t)
    \/ \E d \in DateFilters, f \in NameFilters : GetLog(d, f)

RegistryNext ==
    \/ \E name \in RegistryNameInputs, e \in Embeddings \cup {NoneEmb} : Upsert(name, e)
    \/ \E name \in RegistryNameInputs : Remove(name)
    \/ \E name \in RegistryNameInputs : Lookup(name)
    \/ GetAllNames
    \/ GetCount
    \/ LoadAll
    \/ \E k \in {NameA, NameB}, v \in {<<0, 5>>, NoneEmb} : MutateReturned(k, v)
    \/ \E q \in Queries, t \in Thresholds : FindMatch(q, t)
    \/ CorruptStore
    \/ Restart

\* one AttendanceManager object from construction on, never re-constructed
SessionNext ==
    \/ Tick
    \/ \E name \in NameInputs : Mark(name)
    \/ ResetSession

LocatorNext == \E frame \in Frames : DetectFace(frame)

EmbedderNext ==
    \E face_image \in FaceImages, run \in ModelOutputs \cup {InferenceFails} :
        EmbedFace(face_image, run)

\* the installation with "A" and "B" enrolled, the application just opened
InitEnrolled ==
    /\ csv = EnsureCsvExists([exists |-> FALSE, rows |-> <<>>])
    /\ marked_today = {}
    /\ clock = 0
    /\ pkl = PickleDump(Enrolled)
    /\ appDb = load_embeddings(<<>>, pkl)
    /\ mgrDb = load_embeddings(<<>>, pkl)
    /\ credited = {}
    /\ session = NewSessionState
    /\ managers = [m \in Sessions |-> NewManager]
    /\ registries = [i \in Sessions |-> NewRegistry(pkl)]
    /\ last = Call("init")

AppNext ==
    \/ ScanTick
    \/ CorruptStore
    \/ StartAttendance
    \/ StopAttendance
    \/ \E found \in BOOLEAN, e \in FrameEmbeddings \cup {NoneEmb} : ScanFrame(found, e)

TwoManagersNext ==
    \/ Tick
    \/ \E m \in Sessions, name \in SharedNameInputs : MarkCheck(m, name)
    \/ \E m \in Sessions : MarkAppend(m)

TwoRegistriesNext ==
    \/ \E i \in Sessions, name \in SharedRegistryNames, e \in SharedEmbeddings \cup {NoneEmb} :
          SaveUpdate(i, name, e)
    \/ \E i \in Sessions : SaveOpen(i)
    \/ \E i \in Sessions : SaveDump(i)

SpecLedger == Init /\ [][LedgerNext]_vars

SpecSession == Init /\ [][SessionNext]_vars

SpecRegistry == Init /\ [][RegistryNext]_vars

SpecLocator == Init /\ [][LocatorNext]_vars

SpecEmbedder == Init /\ [][EmbedderNext]_vars

SpecApp == InitEnrolled /\ [][AppNext]_vars

SpecTwoManagers == Init /\ [][TwoManagersNext]_vars

SpecTwoRegistries == Init /\ [][TwoRegistriesNext]_vars

----------------------------------------------------------------------------
(* Properties of the attendance ledger *)

ValidName(name) == name # None /\ Strip(name) # <<>>
HasRecord(rows, n, d) == \E i \in 1..Len(rows) : rows[i].Name = n /\ rows[i].Date = d

\* C1: the CSV file never holds two records with the same name and the same
\* date, whatever marks, session resets, clock ticks and restarts came before.
C1_AtMostOneRecordPerIdentityDate ==
    \A i, j \in 1..Len(csv.rows) :
        (csv.rows[i].Name = csv.rows[j].Name /\ csv.rows[i].Date = csv.rows[j].Date)
            => i = j

\* C2: a mark of an identity on a date on which a mark of that identity has
\* already returned True returns False.
C2_MarkedOncePerDate ==
    [][(/\ last'.op = "mark"
        /\ [name |-> Strip(last'.name), date |-> last'.today] \in credited)
          => ~last'.ret]_vars

\* C3: on one manager object, a mark of an identity credited on another date,
\* on a date for which the CSV holds no record of it, returns True, whether or
\* not reset_session was called in between.
C3_NewDateMarksAgain ==
    [][(/\ last'.op = "mark"
        /\ ValidName(last'.name)
        /\ \E c \in credited : c.name = Strip(last'.name) /\ c.date # last'.today
        /\ ~HasRecord(csv.rows, Strip(last'.name), last'.today))
          => last'.ret]_vars

\* the case of C4: a mark of an identity that is not in marked_today while the
\* CSV holds its record for today
C4_Case ==
    /\ last'.op = "mark"
    /\ ValidName(last'.name)
    /\ Strip(last'.name) \notin marked_today
    /\ HasRecord(csv.rows, Strip(last'.name), last'.today)

\* C4 as claimed: in that case mark returns False and the identity is in
\* marked_today afterwards.  Stated for the marks that do return False: after
\* such a mark the identity is in marked_today.
C4_SelfHealing ==
    [][(C4_Case /\ ~last'.ret) => Strip(last'.name) \in marked_today']_vars

\* C4 as amended: in that case the identity is in marked_today afterwards
\* exactly when mark returned True; a mark that returns False leaves
\* marked_today as it was, the identity still not in it.
C4_NoSelfHealing ==
    [][C4_Case =>
          /\ last'.ret <=> Strip(last'.name) \in marked_today'
          /\ ~last'.ret => marked_today' = marked_today]_vars

\* a mark has returned False on the CSV's record alone
C4_Witness ==
    /\ last.op = "mark"
    /\ ValidName(last.name)
    /\ ~last.ret
    /\ Strip(last.name) \notin marked_today
    /\ HasRecord(csv.rows, Strip(last.name), last.today)

\* C5: mark returns True exactly when it appends the one record (stripped
\* name, the date of the first clock read, the time of the second) and adds
\* the name to marked_today; when it returns False the CSV is unchanged.
C5_MarkedIffAppended ==
    [][last'.op = "mark" =>
          LET n == Strip(last'.name)
              record == [Name |-> n, Date |-> Today(clock), Time |-> CurrentTime(clock')]
          IN  /\ last'.ret <=> /\ csv'.rows = Append(csv.rows, record)
                               /\ csv'.exists
                               /\ marked_today' = marked_today \cup {n}
              /\ last'.ret => ValidName(last'.name)
              /\ ~last'.ret => csv' = csv]_vars

\* a mark of " A " has returned True and the last row names "A"
C5_Witness ==
    /\ last.op = "mark"
    /\ last.ret
    /\ last.name = <<" ", "A", " ">>
    /\ Len(csv.rows) >= 2
    /\ csv.rows[Len(csv.rows)] = [Name |-> NameA, Date |-> last.today, Time |-> last.time]
    /\ NameA \in marked_today

\* C6: every step of the manager (mark, get_log, reset_session, find_match,
\* construction, the clock) leaves the rows the CSV held as a prefix of
\* the rows it holds afterwards, and never removes the file.
C6_AppendOnly ==
    [][csv.exists =>
          /\ csv'.exists
          /\ Len(csv'.rows) >= Len(csv.rows)
          /\ SubSeq(csv'.rows, 1, Len(csv.rows)) = csv.rows]_vars

\* a manager has been constructed over a CSV that holds records
C6_Witness ==
    /\ last.op = "restart"
    /\ Len(csv.rows) >= 2
    /\ marked_today = {}

----------------------------------------------------------------------------
(* Properties of the registry and of find_match *)

\* the registry a reader of the snapshot file gets
Persisted(file) == IF file.exists /\ file.readable THEN file.data ELSE <<>>

Entries(d) == {d[i] : i \in 1..Len(d)}
UniqueKeys(d) == \A i, j \in 1..Len(d) : d[i].name = d[j].name => i = j

\* the distance from the query of the latest call to entry i of what it scanned
DistanceTo(i) == compare_embeddings(last.emb, last.scanned[i].emb)
\* the first entry, in enumeration order, at the least distance
FirstNearest ==
    CHOOSE i \in 1..Len(last.scanned) :
        /\ \A j \in 1..Len(last.scanned) : ~Less(DistanceTo(j), DistanceTo(i))
        /\ \A j \in 1..(i - 1) : Less(DistanceTo(i), DistanceTo(j))
UsedThreshold == IF last.thr = NoDist THEN DefaultThreshold ELSE last.thr

\* C7: find_match returns the first-enumerated entry of least cosine distance
\* and that distance exactly when the distance is below the threshold, and
\* (None, None) otherwise and on an empty registry; a registry of the one
\* entry A: e queried with e under the default threshold gives (A, 0).
C7_FindMatchNearestBelowThreshold ==
    last.op = "find_match" =>
        /\ IF Len(last.scanned) = 0
           THEN last.rname = None /\ last.rdist = NoDist
           ELSE IF Less(DistanceTo(FirstNearest), UsedThreshold)
           THEN /\ last.rname = last.scanned[FirstNearest].name
                /\ last.rdist = DistanceTo(FirstNearest)
           ELSE last.rname = None /\ last.rdist = NoDist
        /\ (/\ Len(last.scanned) = 1
            /\ last.scanned[1].emb = last.emb
            /\ last.thr = NoDist)
              => (last.rname = last.scanned[1].name /\ last.rdist[1] = 0)

\* two entries are equally near the query and the first of them is returned
C7_Witness ==
    /\ last.op = "find_match"
    /\ Len(last.scanned) = 2
    /\ last.scanned[1].emb = last.scanned[2].emb
    /\ last.rname = last.scanned[1].name
    /\ last.rdist[1] > 0

\* C8: a find_match enumerates exactly the registry the snapshot file holds;
\* right after a save_embedding(n, v) on the application's object it
\* enumerates strip(n) with v, right after a delete_embedding(n) it does not
\* enumerate strip(n) and does not return it.
C8_FindMatchSeesLatestWrite ==
    [][last'.op = "find_match" =>
          /\ last'.scanned = Persisted(pkl)
          /\ (last.op = "upsert" /\ last.raised = "")
                => [name |-> Strip(last.name), emb |-> last.emb] \in Entries(last'.scanned)
          /\ (last.op = "remove" /\ last.raised = "")
                => /\ Strip(last.name) \notin DictKeys(last'.scanned)
                   /\ last'.rname # Strip(last.name)]_vars

\* the manager's find_match has returned a name the application enrolled
C8_Witness ==
    /\ last.op = "find_match"
    /\ last.rname = NameB
    /\ Len(last.scanned) = 2
    /\ last.scanned = appDb

\* C9: a save_embedding(n, v) that does not raise, on a store that is readable
\* or not yet there, leaves in the file the registry it held with strip(n)
\* mapped to v: keys unique, every other entry as it was, the count unchanged
\* for a key that was there and one more for a new key.
C9_UpsertPersists ==
    [][(/\ last'.op = "upsert"
        /\ last'.raised = ""
        /\ pkl.exists => pkl.readable)
          => LET prior == Persisted(pkl)
                 post == Persisted(pkl')
                 n == Strip(last'.name)
             IN  /\ pkl'.exists /\ pkl'.readable
                 /\ UniqueKeys(post)
                 /\ [name |-> n, emb |-> last'.emb] \in Entries(post)
                 /\ \A e \in Entries(prior) : e.name # n => e \in Entries(post)
                 /\ DictKeys(post) = DictKeys(prior) \cup {n}
                 /\ Len(post) = IF n \in DictKeys(prior) THEN Len(prior)
                                ELSE Len(prior) + 1]_vars

\* " A" has been registered over the entry A, which stands before B
C9_Witness ==
    /\ last.op = "upsert"
    /\ last.raised = ""
    /\ last.name = <<" ", "A">>
    /\ Len(Persisted(pkl)) = 2
    /\ pkl.data[1] = [name |-> NameA, emb |-> last.emb]
    /\ pkl.data[2].name = NameB

\* C10: save_embedding with a None, empty or blank name, or a None embedding,
\* raises ValueError and changes neither self.embeddings nor the file.
C10_UpsertRejectsInvalid ==
    [][(/\ last'.op = "upsert"
        /\ \/ last'.name = None
           \/ Strip(last'.name) = <<>>
           \/ last'.emb = NoneEmb)
          => /\ last'.raised = "ValueError"
             /\ appDb' = appDb
             /\ pkl' = pkl]_vars

\* a blank name has been rejected while self.embeddings holds what the
\* damaged file no longer gives
C10_Witness ==
    /\ last.op = "upsert"
    /\ last.raised = "ValueError"
    /\ last.name = <<" ">>
    /\ appDb # <<>>
    /\ pkl.exists /\ ~pkl.readable

\* C11: an entry saved by save_embedding is found again by a new
\* EmbeddingDatabase object over the same file: the restart that follows a
\* successful save leaves the file as it is and loads every entry of it, the
\* saved one included, and get_embedding on the new object returns for every
\* name the array the restart loaded under the stripped name (None when there
\* is none).
C11_RoundTrip ==
    [][ /\ (last'.op = "restart" /\ last.op = "upsert" /\ last.raised = "")
            => /\ pkl' = pkl
               /\ appDb' = pkl.data
               /\ [name |-> Strip(last.name), emb |-> last.emb] \in Entries(appDb')
        /\ (last'.op = "lookup" /\ last.op = "restart" /\ last'.name # None)
            => /\ last'.raised = ""
               /\ last'.remb = IF Strip(last'.name) \in DictKeys(appDb)
                                THEN DictGet(appDb, Strip(last'.name))
                                ELSE NoneEmb
               /\ appDb' = appDb
      ]_vars

\* a lookup by an unstripped name on a newly constructed object finds the
\* array saved before the restart, the file holding two entries
C11_Witness ==
    /\ last.op = "lookup" /\ last.fresh
    /\ last.name = <<" ", "A">>
    /\ last.remb \in Embeddings
    /\ Len(appDb) = 2

Unreadable(file) == file.exists /\ ~file.readable

\* C12: while the pickle file exists and cannot be loaded, load_embeddings,
\* get_embedding (of a text), get_count, get_all_names and find_match raise
\* nothing and return what they return on an empty registry: an empty dict,
\* None, 0, an empty list and (None, None); the dict of the object that
\* served the call is empty too.
C12_CorruptReadsAsEmpty ==
    Unreadable(pkl) =>
        /\ last.op = "all" => (last.raised = "" /\ last.all = <<>> /\ appDb = <<>>)
        /\ (last.op = "lookup" /\ last.name # None)
               => (last.raised = "" /\ last.remb = NoneEmb /\ appDb = <<>>)
        /\ last.op = "count" => (last.raised = "" /\ last.count = 0 /\ appDb = <<>>)
        /\ last.op = "names" => (last.raised = "" /\ last.names = <<>> /\ appDb = <<>>)
        /\ last.op = "find_match"
               => /\ last.raised = "" /\ last.rname = None /\ last.rdist = NoDist
                  /\ last.scanned = <<>> /\ mgrDb = <<>>

\* find_match on the damaged file finds nobody, while the application's
\* object still holds the two entries it saved before the damage
C12_Witness ==
    /\ Unreadable(pkl)
    /\ last.op = "find_match" /\ last.emb = <<5, 0>> /\ last.rname = None
    /\ Len(appDb) = 2 /\ <<5, 0>> \in {appDb[i].emb : i \in 1..Len(appDb)}

Others(d, n) == LET Other(e) == e.name # n IN SelectSeq(d, Other)

\* C13: delete_embedding of a text returns True exactly when the file held an
\* entry under the stripped name; then the file holds the other entries, in
\* their order and with their arrays, and no entry under that name; when it
\* returns False the file is left as it is.  In both cases the dict of the
\* object is what the file holds afterwards.
C13_RemoveExactlyThatEntry ==
    [][ (last'.op = "remove" /\ last'.name # None)
        => LET n == Strip(last'.name) IN
           /\ last'.raised = ""
           /\ last'.ret <=> n \in DictKeys(Persisted(pkl))
           /\ last'.ret => /\ pkl'.exists /\ pkl'.readable
                            /\ pkl'.data = Others(Persisted(pkl), n)
                            /\ n \notin DictKeys(Persisted(pkl'))
           /\ ~last'.ret => (pkl' = pkl /\ Persisted(pkl') = Persisted(pkl))
           /\ appDb' = Persisted(pkl')
      ]_vars

\* the entry saved as "A" has been removed under the name " A" and the entry
\* of "B" is what the file still holds
C13_Witness ==
    /\ last.op = "remove" /\ last.name = <<" ", "A">> /\ last.ret
    /\ Len(pkl.data) = 1 /\ pkl.data[1].name = NameB
    /\ appDb = pkl.data

\* C14: setting or deleting a key of the dict load_embeddings returned
\* changes neither self.embeddings of any object nor the file, and the call
\* that follows (load_embeddings, get_embedding, get_count, get_all_names,
\* find_match) answers from what the file holds, as if the caller had changed
\* nothing.
C14_ReturnedDictIsACopy ==
    [][ /\ last'.op = "mutate"
            => (appDb' = appDb /\ mgrDb' = mgrDb /\ pkl' = pkl)
        /\ last.op = "mutate"
            => /\ last'.op = "all" => (last'.all = Persisted(pkl) /\ ~last'.shared)
               /\ last'.op = "count" => last'.count = Len(Persisted(pkl))
               /\ last'.op = "names"
                     => last'.names = [i \in 1..Len(Persisted(pkl)) |-> Persisted(pkl)[i].name]
               /\ (last'.op = "lookup" /\ last'.name # None)
                     => last'.remb = IF Strip(last'.name) \in DictKeys(Persisted(pkl))
                                      THEN DictGet(Persisted(pkl), Strip(last'.name))
                                      ELSE NoneEmb
               /\ last'.op = "find_match"
                     => (Len(Persisted(pkl)) > 0 => last'.scanned = Persisted(pkl))
      ]_vars

\* the caller has deleted the only key of the dict it received, and the
\* registry still holds that entry
C14_Witness ==
    /\ last.op = "mutate" /\ last.emb = NoneEmb /\ last.all = <<>>
    /\ Len(appDb) = 1 /\ appDb[1].name = last.name
    /\ pkl.data = appDb

----------------------------------------------------------------------------
(* Further properties of the attendance ledger *)

\* C15: mark_attendance of None, of the empty text or of a text of spaces
\* returns False, writes nothing to the CSV file and leaves marked_today as it
\* was.
C15_MarkRejectsBlank ==
    [][ (last'.op = "mark" /\ ~ValidName(last'.name))
        => /\ ~last'.ret
           /\ csv' = csv
           /\ marked_today' = marked_today
           /\ credited' = credited
      ]_vars

\* a text of one space has been refused while the session had marked "A"
C15_Witness ==
    /\ last.op = "mark" /\ last.name = <<" ">> /\ ~last.ret
    /\ marked_today = {NameA}
    /\ Len(csv.rows) = 1 /\ csv.rows[1].Name = NameA

\* the rows of a frame as the texts the CSV file holds
LogRows(log) ==
    [i \in 1..Len(log) |-> [Name |-> log[i].Name.text, Date |-> log[i].Date,
                            Time |-> log[i].Time]]

\* the record is one get_log is asked for
Matching(r, date_filter, name_filter) ==
    /\ date_filter # NoDate => r.Date = date_filter
    /\ name_filter # NoFilter => ContainsNoCase(r.Name, name_filter)

Occurrences(rows, r) == Cardinality({i \in 1..Len(rows) : rows[i] = r})

\* C16: get_attendance_log raises nothing and returns the records of the CSV
\* file whose date is date_filter (when one is given) and whose name contains
\* name_filter whatever the case (when one is given): each such record as
\* often as the file holds it, and no other record.
C16_GetLogExactlyMatching ==
    last.op = "get_log"
    => /\ last.raised = ""
       /\ \A i \in 1..Len(csv.rows) :
             LET r == csv.rows[i] IN
             Occurrences(LogRows(last.log), r) =
                 IF Matching(r, last.dfilter, last.nfilter)
                 THEN Occurrences(csv.rows, r) ELSE 0
       /\ \A j \in 1..Len(last.log) :
             \E i \in 1..Len(csv.rows) : csv.rows[i] = LogRows(last.log)[j]

\* the rows of the file, as pandas reads them, that the filters of the latest
\* get_log keep
Kept(r) ==
    /\ last.dfilter # NoDate => r.Date = last.dfilter
    /\ (last.nfilter # NoFilter /\ last.nfilter # <<>>) => StrContains(r.Name, last.nfilter)

Filtered == SelectSeq(ReadCsv(csv), Kept)

\* C17: whatever the filters, the frame get_attendance_log returns is in
\* descending order of (Date, Time): no row is followed by a later one; and
\* it holds the rows the filters kept, each as often as they do, no other
\* row and none twice more.
C17_GetLogSortedDescending ==
    (last.op = "get_log" /\ last.raised = "")
    => /\ \A i \in 1..(Len(last.log) - 1) :
             \/ last.log[i].Date > last.log[i + 1].Date
             \/ /\ last.log[i].Date = last.log[i + 1].Date
                /\ last.log[i].Time >= last.log[i + 1].Time
       /\ Len(last.log) = Len(Filtered)
       /\ \A i \in 1..Len(Filtered) :
             Occurrences(last.log, Filtered[i]) = Occurrences(Filtered, Filtered[i])

\* two records of names holding an "a", written on two dates, returned with
\* the later one first
C17_Witness ==
    /\ last.op = "get_log" /\ last.raised = ""
    /\ last.nfilter = <<"a">> /\ last.dfilter = NoDate
    /\ Len(last.log) = 2
    /\ last.log[1].Date > last.log[2].Date
    /\ csv.rows[1].Date < csv.rows[2].Date

----------------------------------------------------------------------------
(* Properties of detect_face *)

\* C18: detect_face returns no bounding box exactly when the frame is None or
\* the detector finds no rectangle in it; otherwise the box is one of the
\* rectangles found, and no rectangle found has a larger area (w * h).
C18_LargestCandidate ==
    last.op = "detect_face"
    => /\ last.found <=> last.bbox # NoBox
       /\ last.bbox = NoBox <=> (last.frame.none \/ Len(last.frame.faces) = 0)
       /\ last.bbox # NoBox
            => /\ \E i \in 1..Len(last.frame.faces) : last.frame.faces[i] = last.bbox
               /\ \A j \in 1..Len(last.frame.faces) :
                     last.bbox[3] * last.bbox[4]
                         >= last.frame.faces[j][3] * last.frame.faces[j][4]

\* three rectangles found, the first of them the smallest, two of them of the
\* largest area, and one of these returned
C18_Witness ==
    /\ last.op = "detect_face" /\ ~last.frame.none
    /\ last.frame.faces = << <<0, 0, 30, 30>>, <<0, 0, 40, 30>>, <<0, 0, 30, 40>> >>
    /\ last.bbox = <<0, 0, 40, 30>>

----------------------------------------------------------------------------
(* Properties of FaceEmbedder.get_embedding *)

\* the squares of the components of num / den add up to 1
UnitNorm(e) == e.den # 0 /\ SumSq(e.num) = e.den * e.den

\* C19: whatever the face image and whatever the model outputs for it, the
\* all-zero array included, an array that get_embedding returns has the
\* Euclidean norm 1.
C19_UnitNorm ==
    (last.op = "get_embedding" /\ last.raised = "") => UnitNorm(last.embedding)

----------------------------------------------------------------------------
(* Properties of the page "Mark Attendance" *)

\* C20: attendance_active goes from False to True only by "Start Attendance",
\* which empties marked_today and changes neither the CSV file, the pickle
\* file, the clock nor last_match and last_match_time; so marked_today is
\* empty when the first image of the session is processed.  "Stop Attendance"
\* leaves marked_today as it is.
C20_StartResetsSession ==
    [][ /\ (~session.attendance_active /\ session'.attendance_active)
            => /\ last'.op = "start"
               /\ marked_today' = {}
        /\ last'.op = "start"
            => /\ session' = [session EXCEPT !.attendance_active = TRUE]
               /\ csv' = csv /\ pkl' = pkl /\ mgrDb' = mgrDb
               /\ clock' = clock /\ credited' = credited
        /\ (last.op = "start" /\ last'.op = "frame") => marked_today = {}
        /\ (session.attendance_active /\ ~session'.attendance_active)
            => /\ last'.op = "stop"
               /\ marked_today' = marked_today
      ]_vars

\* a second session has just started: the first one marked "A" and "B", whose
\* records the file holds, and marked_today is empty again
C20_Witness ==
    /\ last.op = "start" /\ session.attendance_active
    /\ marked_today = {}
    /\ credited = {[name |-> NameA, date |-> 1], [name |-> NameB, date |-> 1]}
    /\ Len(csv.rows) = 2
    /\ session.last_match = NameB

\* C21: on an image matched to X, mark_attendance(X) is called exactly when
\* X is not last_match or last_match_time is set and more than 5 seconds
\* before the clock; last_match and last_match_time are the name and the
\* time of the latest mark that returned True, last_match being None again
\* after an image with a face that matched nobody, and nothing else changes
\* either.  So the person credited in this scanning session and seen again
\* more than 5 seconds later has mark_attendance called and gets False with
\* no record written, and seen again earlier, with no unmatched face in
\* between, has it not called.
C21_RetriggerPolicy ==
    [][ /\ (last'.op = "frame" /\ last'.rname # None)
            => /\ last'.called
                    <=> \/ last'.rname # session.last_match
                        \/ /\ session.last_match_time # NoTime
                           /\ last'.now - session.last_match_time > RetriggerSeconds
               /\ (last'.called /\ last'.rname \in marked_today)
                    => (~last'.ret /\ csv' = csv /\ marked_today' = marked_today)
        /\ IF last'.op = "frame" /\ last'.ret
           THEN /\ session'.last_match = last'.rname
                /\ session'.last_match_time = TimeTime(clock')
           ELSE IF /\ last'.op = "frame" /\ last'.found /\ last'.emb # NoneEmb
                   /\ last'.rname = None
           THEN /\ session'.last_match = None
                /\ session'.last_match_time = session.last_match_time
           ELSE /\ session'.last_match = session.last_match
                /\ session'.last_match_time = session.last_match_time
      ]_vars

\* "A", credited in this session more than 5 seconds ago and the last one
\* credited, has been matched again: mark_attendance was called and
\* returned False
C21_Witness ==
    /\ last.op = "frame" /\ last.rname = NameA
    /\ session.last_match = NameA
    /\ last.now - session.last_match_time > RetriggerSeconds
    /\ last.called /\ ~last.ret
    /\ NameA \in marked_today
    /\ Len(csv.rows) = 1

\* C22: mark_attendance is called, and the CSV file and marked_today grow,
\* only in the processing of an image while attendance_active is True, when a
\* face was detected, get_embedding returned an array and find_match
\* returned a name; the record written bears that name, which is a key of
\* what the pickle file holds at that moment.  An image with no face, one on
\* which get_embedding raised and one that matched nobody leave the file and
\* marked_today as they were.
C22_PipelineGating ==
    [][ /\ last'.op = "frame"
            => /\ session.attendance_active
               /\ last'.called
                    => /\ last'.found /\ last'.emb # NoneEmb /\ last'.rname # None
                       /\ last'.rname = find_match(mgrDb, pkl, last'.emb, NoDist).rname
               /\ (~last'.found \/ last'.emb = NoneEmb \/ last'.rname = None)
                    => (~last'.called /\ csv' = csv /\ marked_today' = marked_today)
        /\ csv' # csv
            => /\ last'.op = "frame" /\ last'.called /\ last'.ret
               /\ Len(csv'.rows) = Len(csv.rows) + 1
               /\ SubSeq(csv'.rows, 1, Len(csv.rows)) = csv.rows
               /\ csv'.rows[Len(csv'.rows)].Name = last'.rname
               /\ last'.rname \in DictKeys(Persisted(pkl))
               /\ marked_today' = marked_today \cup {last'.rname}
        /\ ~(marked_today' \subseteq marked_today) => csv' # csv
      ]_vars

\* the pickle file has been damaged after "A" was marked: the face of "A"
\* matches nobody and nothing is written, though the manager's dict held
\* the two entries until this image
C22_Witness ==
    /\ last.op = "frame" /\ last.found /\ last.emb = <<5, 0>>
    /\ last.rname = None /\ ~last.called
    /\ Unreadable(pkl) /\ mgrDb = <<>>
    /\ Len(csv.rows) = 1 /\ csv.rows[1].Name = NameA
    /\ marked_today = {NameA}

----------------------------------------------------------------------------
(* Properties of two sessions at work at once *)

\* C23: with two AttendanceManager objects, each with its own marked_today,
\* running mark_attendance over the same CSV file, the reads and the writes
\* of the two calls in any order, the file never holds two records of the
\* same name and the same date: it holds as many (name, date) pairs as rows.
C23_OneRecordPerIdentityDateInterleaved ==
    Cardinality({<<csv.rows[i].Name, csv.rows[i].Date>> : i \in 1..Len(csv.rows)})
        = Len(csv.rows)

\* C24: with two EmbeddingDatabase objects saving over the same pickle file,
\* the loads and the writes of their save_embedding calls in any order, once
\* no call is under way the file holds an entry for every name whose
\* save_embedding has returned (nothing deletes entries here).
C24_NoEnrollmentLost ==
    (\A i \in Sessions : registries[i].pc = "idle")
    => \A i \in Sessions : registries[i].acked \subseteq DictKeys(Persisted(pkl))

====
